---- MODULE Spec2Model ----
(***************************************************************************)
(* Visitor tracking and aggregation of the resume backend                  *)
(* (resume/models.py: Visitor; resume/views.py: track_visit, visit_stats). *)
(*                                                                         *)
(* The Visitor table is a sequence of rows whose position is the primary   *)
(* key (rows are never deleted).  Every request handler is a process whose *)
(* steps are its database statements and its outbound geolocation call;    *)
(* the statements of different requests interleave (autocommit, no         *)
(* transaction around a view).  first_seen / last_seen are timestamps that *)
(* no decision of the code reads; they are left out of the row.            *)
(***************************************************************************)
EXTENDS Integers, Sequences, FiniteSets, TLC

(* ----------------------------- bounds --------------------------------- *)

\* Total number of track_visit requests accepted in one behaviour when
\* requests are handled concurrently.
MaxRequests == 2

\* Total number of track_visit requests accepted in one behaviour when
\* requests are handled one after another.
MaxSeqRequests == 4

\* Request handlers (worker threads) that may run at the same time.
Procs == {"w1", "w2"}

(* ----------------------------- values --------------------------------- *)

\* Python None / SQL NULL for the text columns.
None == "<None>"

\* Python truthiness of an optional string.
Truthy(v) == v # None /\ v # ""

\* max_length of Visitor.visitor_id, also the limit tested by track_visit.
MaxIdLen == 64

Whitespace == {" ", "\t"}

RECURSIVE Rep(_, _)
Rep(c, n) == IF n = 0 THEN <<>> ELSE <<c>> \o Rep(c, n - 1)

RECURSIVE LStrip(_)
LStrip(s) ==
    IF s # <<>> /\ Head(s) \in Whitespace THEN LStrip(Tail(s)) ELSE s

RECURSIVE RStrip(_)
RStrip(s) ==
    IF s # <<>> /\ s[Len(s)] \in Whitespace
    THEN RStrip(SubSeq(s, 1, Len(s) - 1))
    ELSE s

\* str.strip()
Strip(s) == RStrip(LStrip(s))

\* request.data: the JSON body, with or without the key "visitor_id".
Body(has, text) == [has_visitor_id |-> has, visitor_id |-> text]

Bodies ==
    { Body(FALSE, <<>>),
      Body(TRUE, <<>>),
      Body(TRUE, <<" ", "\t">>),
      Body(TRUE, <<"a">>),
      Body(TRUE, <<" ", "a", "\t">>),
      Body(TRUE, Rep("a", MaxIdLen)),
      Body(TRUE, <<" ">> \o Rep("a", MaxIdLen) \o <<" ">>),
      Body(TRUE, Rep("a", MaxIdLen + 1)) }

IP1 == "1.2.3.4"
IP2 == "5.6.7.8"

\* request.META: the forwarded-for header (a string, here a sequence of
\* tokens: an address, "," or a blank; <<>> when the header is missing or
\* empty), the peer address and the user agent.
Meta(xff, remote, ua) ==
    [x_forwarded_for |-> xff, remote_addr |-> remote, user_agent |-> ua]

Metas ==
    { Meta(<<>>, IP1, "UA1"),
      Meta(<<IP2, ",", " ", IP1>>, IP1, "UA2"),
      Meta(<<>>, None, "") }

\* What the HTTP call to ip-api.com can end in: an exception (timeout,
\* connection error, a body that is no JSON) or a JSON object.
Outcome(kind, st, c, cc) ==
    [kind |-> kind, status |-> st, country |-> c, countryCode |-> cc]

Outcomes ==
    { Outcome("exception", None, None, None),
      Outcome("json", "fail", None, None),
      Outcome("json", "success", "Taiwan", "TW"),
      Outcome("json", "success", None, "TW"),
      Outcome("json", "success", "", "TW"),
      Outcome("json", "success", "Taiwan", None),
      Outcome("json", "success", None, None) }

(* ------------------------ pure functions ------------------------------ *)

\* s.split(",")[0]
RECURSIVE FirstField(_)
FirstField(s) ==
    IF s = <<>> \/ Head(s) = "," THEN <<>>
    ELSE <<Head(s)>> \o FirstField(Tail(s))

\* The string a token sequence spells ("" for none; an address is one token).
AsText(s) == IF s = <<>> THEN "" ELSE Head(s)

\* _get_client_ip
GetClientIp(meta) ==
    IF meta.x_forwarded_for # <<>>
    THEN AsText(Strip(FirstField(meta.x_forwarded_for)))
    ELSE meta.remote_addr

\* _lookup_country, given what the HTTP call ended in.
LookupCountry(ip_address, outcome) ==
    IF ~Truthy(ip_address) THEN <<None, None>>
    ELSE IF outcome.kind = "json" /\ outcome.status = "success"
         THEN <<outcome.country, outcome.countryCode>>
         ELSE <<None, None>>

\* (request.data.get("visitor_id") or "").strip()
CleanVisitorId(body) ==
    IF body.has_visitor_id THEN Strip(body.visitor_id) ELSE <<>>

InvalidVisitorIdOffByOne(visitor_id) ==
    visitor_id = <<>> \/ Len(visitor_id) > MaxIdLen + 1

\* not visitor_id or len(visitor_id) > 64
InvalidVisitorId(visitor_id) ==
    visitor_id = <<>> \/ Len(visitor_id) > MaxIdLen

\* A Visitor row / model instance.
Row(pk, vid, ip, ua, c, cc, n) ==
    [id |-> pk, visitor_id |-> vid, ip_address |-> ip, user_agent |-> ua,
     country |-> c, country_code |-> cc, visit_count |-> n]

NoRow == Row(0, <<>>, None, None, None, None, 0)

\* Primary keys of the rows a filter on visitor_id selects.
Matches(tbl, vid) == {i \in DOMAIN tbl : tbl[i].visitor_id = vid}

\* Visitor.objects.get(visitor_id=...), NoRow for DoesNotExist.
GetRow(tbl, vid) ==
    IF Matches(tbl, vid) = {} THEN NoRow
    ELSE tbl[CHOOSE i \in Matches(tbl, vid) : \A j \in Matches(tbl, vid) : i <= j]

UniqueViolationOff(tbl, vid) == FALSE

\* unique=True on visitor_id: the INSERT raises IntegrityError.
UniqueViolation(tbl, vid) == Matches(tbl, vid) # {}

\* INSERT of a new Visitor(visitor_id, **defaults); visit_count default 0.
InsertRow(tbl, vid, ip, ua) ==
    Append(tbl, Row(Len(tbl) + 1, vid, ip, ua, None, None, 0))

\* visitor.save(): UPDATE of every column of the row with the instance's pk.
SaveAll(tbl, v) == [tbl EXCEPT ![v.id] = v]

\* visitor.save(update_fields=["visit_count", "last_seen"])
SaveCount(tbl, v) == [tbl EXCEPT ![v.id].visit_count = v.visit_count]

RefreshNoFlag(v, created, ip, ua) ==
    LET ipNew == ~created /\ Truthy(ip) /\ v.ip_address # ip
        uaNew == ~created /\ Truthy(ua) /\ v.user_agent # ua
    IN  [visitor |-> [v EXCEPT !.ip_address = IF ipNew THEN ip ELSE @,
                               !.user_agent = IF uaNew THEN ua ELSE @],
         updated |-> FALSE]

\* Lines 89-96 of track_visit: refresh of ip_address / user_agent on a row
\* that already existed.  Gives the instance and the flag `updated`.
Refresh(v, created, ip, ua) ==
    LET ipNew == ~created /\ Truthy(ip) /\ v.ip_address # ip
        uaNew == ~created /\ Truthy(ua) /\ v.user_agent # ua
    IN  [visitor |-> [v EXCEPT !.ip_address = IF ipNew THEN ip ELSE @,
                               !.user_agent = IF uaNew THEN ua ELSE @],
         updated |-> ipNew \/ uaNew]

\* Line 99: if ip_address and not visitor.country
NeedsLookup(v, ip) == Truthy(ip) /\ ~Truthy(v.country)

\* Line 101: if country or country_code
HasResult(res) == Truthy(res[1]) \/ Truthy(res[2])

EnrichedCountryOnly(v, res) ==
    IF HasResult(res) THEN [v EXCEPT !.country = res[1]] ELSE v

\* Lines 101-103: the instance after a lookup that returned res.
Enriched(v, res) ==
    IF HasResult(res)
    THEN [v EXCEPT !.country = res[1], !.country_code = res[2]]
    ELSE v

\* Line 107: visitor.visit_count = (visitor.visit_count or 0) + 1
Bump(v) == [v EXCEPT !.visit_count = @ + 1]

\* The response of track_visit (status 200), or an error response.
Resp(st, created, vid, n, c, cc) ==
    [status |-> st, created |-> created, visitor_id |-> vid,
     visit_count |-> n, country |-> c, country_code |-> cc]

NoResp == Resp(0, FALSE, <<>>, 0, None, None)
BadRequest == Resp(400, FALSE, <<>>, 0, None, None)
ServerError == Resp(500, FALSE, <<>>, 0, None, None)

\* What a request remembers of its call to _lookup_country.
Lookup(called, res) ==
    [called |-> called, country |-> res[1], country_code |-> res[2]]

NoLookup == Lookup(FALSE, <<None, None>>)

NoBody == Body(FALSE, <<>>)

\* The visitor ids the requests can carry after validation.
Ids == {CleanVisitorId(b) : b \in Bodies} \ {<<>>}

(* ------------------------ visit_stats queries ------------------------- *)

RECURSIVE SumCounts(_)
SumCounts(tbl) ==
    IF tbl = <<>> THEN 0 ELSE Head(tbl).visit_count + SumCounts(Tail(tbl))

\* An SQL aggregate value: NULL or a number.
SqlNull == [is_null |-> TRUE, value |-> 0]
SqlInt(n) == [is_null |-> FALSE, value |-> n]

SqlSumAsCount(tbl) == IF tbl = <<>> THEN SqlNull ELSE SqlInt(Len(tbl))

\* Line 134: aggregate(total_pageviews=Sum("visit_count")); NULL over no rows.
SqlSum(tbl) == IF tbl = <<>> THEN SqlNull ELSE SqlInt(SumCounts(tbl))

\* Line 135: agg["total_pageviews"] or 0
OrZero(a) == IF a.is_null \/ a.value = 0 THEN 0 ELSE a.value

\* Line 136: Visitor.objects.count()
SqlCount(tbl) == Len(tbl)

\* The rows of tbl in the group of key k = (country, country_code).
Group(tbl, k) == SelectSeq(tbl, LAMBDA r : <<r.country, r.country_code>> = k)

\* Line 139: values("country", "country_code"), the keys of GROUP BY.
GroupKeys(tbl) == {<<tbl[i].country, tbl[i].country_code>> : i \in DOMAIN tbl}

\* Lines 140-143: one annotated row per group.
CountryRow(tbl, k) ==
    [country |-> k[1], country_code |-> k[2],
     unique_visitors |-> Len(Group(tbl, k)),
     pageviews |-> SumCounts(Group(tbl, k))]

CountryRowSet(tbl) == {CountryRow(tbl, k) : k \in GroupKeys(tbl)}

\* Line 144: order_by("-pageviews"); the order among equal sums is the
\* database's choice.
CountryRows(tbl) ==
    LET S == CountryRowSet(tbl)
        n == Cardinality(S)
    IN  {q \in [1..n -> S] :
            /\ \A i, j \in 1..n : i # j => q[i] # q[j]
            /\ \A i, j \in 1..n : i < j => q[i].pageviews >= q[j].pageviews}

\* Lines 152-157: one entry of by_country.
Entry(row) ==
    [country |-> IF Truthy(row.country) THEN row.country ELSE "Unknown",
     country_code |-> IF Truthy(row.country_code) THEN row.country_code ELSE "",
     unique_visitors |-> row.unique_visitors,
     pageviews |-> row.pageviews]

\* The response of visit_stats.
StatsResp(st, total, uniq, by) ==
    [status |-> st, total_pageviews |-> total, unique_visitors |-> uniq,
     by_country |-> by]

NoStats == StatsResp(0, 0, 0, <<>>)

(* ----------------------------- state ---------------------------------- *)

VARIABLES
    rows,          \* the Visitor table
    pc,            \* where each handler is in track_visit
    body,          \* request.data of the request being handled
    visitor_id,    \* local visitor_id
    ip_address,    \* local ip_address
    user_agent,    \* local user_agent
    visitor,       \* local model instance
    created,       \* local created
    updated,       \* local updated
    resp,          \* the last response of each handler
    lookup,        \* history: the request's call to _lookup_country
    pre,           \* history: the id's row when the request was validated
    handled,       \* history: the valid visitor id of the request
    started,       \* history: track_visit requests received
    nreq,          \* history: valid requests received, per visitor id
    ok_count,      \* history: requests answered 200, per visitor id
    lookup_calls,  \* history: calls to ip-api.com
    writes,        \* history: INSERT / UPDATE statements of the request
    spc,           \* where the visit_stats handler is
    total_pageviews,   \* local total_pageviews of visit_stats
    unique_visitors,   \* local unique_visitors of visit_stats
    sresp          \* the last response of visit_stats

locals == <<body, visitor_id, ip_address, user_agent, visitor, created, updated>>
hist == <<lookup, pre, handled, started, nreq, ok_count, lookup_calls, writes>>
stats == <<spc, total_pageviews, unique_visitors, sresp>>
vars == <<rows, pc, resp, locals, hist, stats>>

Init ==
    /\ rows = <<>>
    /\ pc = [p \in Procs |-> "idle"]
    /\ body = [p \in Procs |-> NoBody]
    /\ visitor_id = [p \in Procs |-> <<>>]
    /\ ip_address = [p \in Procs |-> None]
    /\ user_agent = [p \in Procs |-> ""]
    /\ visitor = [p \in Procs |-> NoRow]
    /\ created = [p \in Procs |-> FALSE]
    /\ updated = [p \in Procs |-> FALSE]
    /\ resp = [p \in Procs |-> NoResp]
    /\ lookup = [p \in Procs |-> NoLookup]
    /\ pre = [p \in Procs |-> NoRow]
    /\ handled = [p \in Procs |-> <<>>]
    /\ started = 0
    /\ nreq = [i \in Ids |-> 0]
    /\ ok_count = [i \in Ids |-> 0]
    /\ lookup_calls = 0
    /\ writes = [p \in Procs |-> 0]
    /\ spc = "idle"
    /\ total_pageviews = 0
    /\ unique_visitors = 0
    /\ sresp = NoStats

(* --------------------------- track_visit ------------------------------ *)

\* A response (and what is remembered of its request) can be observed until
\* the next request arrives: f without the entries of the idle handlers.
Forget(f, none) == [q \in Procs |-> IF pc[q] = "idle" THEN none ELSE f[q]]

\* The handler returns response r: its locals go away.
Return(p, r) ==
    /\ resp' = [resp EXCEPT ![p] = r]
    /\ pc' = [pc EXCEPT ![p] = "idle"]
    /\ UNCHANGED body
    /\ visitor_id' = [visitor_id EXCEPT ![p] = <<>>]
    /\ ip_address' = [ip_address EXCEPT ![p] = None]
    /\ user_agent' = [user_agent EXCEPT ![p] = ""]
    /\ visitor' = [visitor EXCEPT ![p] = NoRow]
    /\ created' = [created EXCEPT ![p] = FALSE]
    /\ updated' = [updated EXCEPT ![p] = FALSE]

\* A POST /api/track-visit/ arrives at handler p (at most max of them).
Arrive(p, max) ==
    /\ pc[p] = "idle"
    /\ started < max
    /\ \E b \in Bodies : body' = [Forget(body, NoBody) EXCEPT ![p] = b]
    /\ pc' = [pc EXCEPT ![p] = "validate"]
    /\ started' = started + 1
    /\ resp' = Forget(resp, NoResp)
    /\ lookup' = Forget(lookup, NoLookup)
    /\ pre' = Forget(pre, NoRow)
    /\ handled' = Forget(handled, <<>>)
    /\ writes' = Forget(writes, 0)
    /\ sresp' = IF spc = "idle" THEN NoStats ELSE sresp
    /\ UNCHANGED <<rows, visitor_id, ip_address, user_agent, visitor, created,
                   updated, nreq, ok_count, lookup_calls, spc, total_pageviews,
                   unique_visitors>>

Receive(p) == Arrive(p, MaxRequests)

\* Lines 70-78: validation of visitor_id, then the request's metadata m.
Validate(p) ==
    /\ pc[p] = "validate"
    /\ LET vid == CleanVisitorId(body[p]) IN
       IF InvalidVisitorId(vid)
       THEN /\ Return(p, BadRequest)
            /\ UNCHANGED <<rows, hist, stats>>
       ELSE /\ \E m \in Metas :
                 /\ ip_address' = [ip_address EXCEPT ![p] = GetClientIp(m)]
                 /\ user_agent' = [user_agent EXCEPT ![p] = m.user_agent]
            /\ visitor_id' = [visitor_id EXCEPT ![p] = vid]
            /\ body' = [body EXCEPT ![p] = NoBody]
            /\ pre' = [pre EXCEPT ![p] = GetRow(rows, vid)]
            /\ handled' = [handled EXCEPT ![p] = vid]
            /\ nreq' = [nreq EXCEPT ![vid] = @ + 1]
            /\ pc' = [pc EXCEPT ![p] = "get"]
            /\ UNCHANGED <<rows, visitor, created, updated, resp, lookup,
                           started, ok_count, lookup_calls, writes, stats>>

\* The instance get_or_create hands back for an existing row, after lines 89-96.
Found(p, r) ==
    LET f == Refresh(r, FALSE, ip_address[p], user_agent[p]) IN
    /\ visitor' = [visitor EXCEPT ![p] = f.visitor]
    /\ created' = [created EXCEPT ![p] = FALSE]
    /\ updated' = [updated EXCEPT ![p] = f.updated]
    /\ pc' = [pc EXCEPT ![p] = "enrich"]

\* Line 80, get_or_create: its SELECT (and lines 89-96 when the row exists).
GocGet(p) ==
    /\ pc[p] = "get"
    /\ LET r == GetRow(rows, visitor_id[p]) IN
       IF r = NoRow
       THEN /\ pc' = [pc EXCEPT ![p] = "create"]
            /\ UNCHANGED <<visitor, created, updated>>
       ELSE Found(p, r)
    /\ UNCHANGED <<rows, body, visitor_id, ip_address, user_agent, resp,
                   hist, stats>>

\* Line 80, get_or_create: its INSERT after the SELECT found nothing; on
\* IntegrityError (the unique visitor_id exists by now) it selects again.
GocCreate(p) ==
    /\ pc[p] = "create"
    /\ IF UniqueViolation(rows, visitor_id[p])
       THEN /\ Found(p, GetRow(rows, visitor_id[p]))
            /\ UNCHANGED <<rows, writes>>
       ELSE /\ rows' = InsertRow(rows, visitor_id[p], ip_address[p], user_agent[p])
            /\ writes' = [writes EXCEPT ![p] = @ + 1]
            /\ visitor' = [visitor EXCEPT ![p] = rows'[Len(rows')]]
            /\ created' = [created EXCEPT ![p] = TRUE]
            /\ updated' = [updated EXCEPT ![p] = FALSE]
            /\ pc' = [pc EXCEPT ![p] = "enrich"]
    /\ UNCHANGED <<body, visitor_id, ip_address, user_agent, resp, lookup,
                   pre, handled, started, nreq, ok_count, lookup_calls, stats>>

\* Lines 99-107: the conditional country lookup and the increment.
Enrich(p) ==
    /\ pc[p] = "enrich"
    /\ IF NeedsLookup(visitor[p], ip_address[p])
       THEN \E o \in Outcomes :
              LET res == LookupCountry(ip_address[p], o) IN
              /\ visitor' = [visitor EXCEPT ![p] = Bump(Enriched(@, res))]
              /\ updated' = [updated EXCEPT ![p] = @ \/ HasResult(res)]
              /\ lookup' = [lookup EXCEPT ![p] = Lookup(TRUE, res)]
              /\ lookup_calls' = lookup_calls + 1
       ELSE /\ visitor' = [visitor EXCEPT ![p] = Bump(@)]
            /\ UNCHANGED <<updated, lookup, lookup_calls>>
    /\ pc' = [pc EXCEPT ![p] = "save"]
    /\ UNCHANGED <<rows, body, visitor_id, ip_address, user_agent,
                   created, resp, pre, handled, started, nreq, ok_count,
                   writes, stats>>

SavedNoElse(tbl, v, c, u) == IF c \/ u THEN SaveAll(tbl, v) ELSE tbl

\* Lines 109-113: the table after the save.
Saved(tbl, v, c, u) == IF c \/ u THEN SaveAll(tbl, v) ELSE SaveCount(tbl, v)

\* Lines 109-123: the save and the response.
Save(p) ==
    /\ pc[p] = "save"
    /\ rows' = Saved(rows, visitor[p], created[p], updated[p])
    /\ ok_count' = [ok_count EXCEPT ![visitor_id[p]] = @ + 1]
    /\ writes' = [writes EXCEPT ![p] = @ + 1]
    /\ Return(p, Resp(200, created[p], visitor[p].visitor_id,
                      visitor[p].visit_count, visitor[p].country,
                      visitor[p].country_code))
    /\ UNCHANGED <<lookup, pre, handled, started, nreq, lookup_calls, stats>>

\* The INSERT of get_or_create raises a database error: the view raises,
\* the framework answers 500.
CreateFail(p) ==
    /\ pc[p] = "create"
    /\ Return(p, ServerError)
    /\ UNCHANGED <<rows, hist, stats>>

\* The UPDATE of visitor.save() raises a database error.
SaveFail(p) ==
    /\ pc[p] = "save"
    /\ Return(p, ServerError)
    /\ UNCHANGED <<rows, hist, stats>>

(* --------------------------- visit_stats ------------------------------ *)

\* A GET /api/visit-stats/ arrives.
StatsReceive ==
    /\ spc = "idle"
    /\ spc' = "total"
    /\ sresp' = NoStats
    /\ body' = Forget(body, NoBody)
    /\ resp' = Forget(resp, NoResp)
    /\ lookup' = Forget(lookup, NoLookup)
    /\ pre' = Forget(pre, NoRow)
    /\ handled' = Forget(handled, <<>>)
    /\ writes' = Forget(writes, 0)
    /\ UNCHANGED <<rows, pc, visitor_id, ip_address, user_agent, visitor,
                   created, updated, started, nreq, ok_count, lookup_calls,
                   total_pageviews, unique_visitors>>

\* Lines 134-135: the first query.
StatsTotal ==
    /\ spc = "total"
    /\ total_pageviews' = OrZero(SqlSum(rows))
    /\ spc' = "count"
    /\ UNCHANGED <<rows, pc, resp, locals, hist, unique_visitors, sresp>>

\* Line 136: the second query.
StatsCount ==
    /\ spc = "count"
    /\ unique_visitors' = SqlCount(rows)
    /\ spc' = "by_country"
    /\ UNCHANGED <<rows, pc, resp, locals, hist, total_pageviews, sresp>>

\* Lines 138-161: the third query (evaluated when the response is built)
\* and the response.
StatsByCountry ==
    /\ spc = "by_country"
    /\ \E q \in CountryRows(rows) :
          sresp' = StatsResp(200, total_pageviews, unique_visitors,
                             [i \in DOMAIN q |-> Entry(q[i])])
    /\ spc' = "idle"
    /\ total_pageviews' = 0
    /\ unique_visitors' = 0
    /\ UNCHANGED <<rows, pc, resp, locals, hist>>

(* ------------------------- specifications ----------------------------- *)

\* No other handler is in the middle of a request.
Alone(p) == spc = "idle" /\ \A q \in Procs \ {p} : pc[q] = "idle"
StatsAlone == \A q \in Procs : pc[q] = "idle"

\* A request arrives while no other request is being handled.
ReceiveAlone(p) == Alone(p) /\ Arrive(p, MaxSeqRequests)
StatsReceiveAlone == StatsAlone /\ StatsReceive

\* Requests for track_visit handled concurrently; no database failure.
Next ==
    \E p \in Procs :
       \/ Receive(p)
       \/ Validate(p)
       \/ GocGet(p)
       \/ GocCreate(p)
       \/ Enrich(p)
       \/ Save(p)

Spec == Init /\ [][Next]_vars

\* Requests for track_visit and visit_stats handled concurrently.
NextStats ==
    \/ \E p \in Procs :
          \/ Receive(p)
          \/ Validate(p)
          \/ GocGet(p)
          \/ GocCreate(p)
          \/ Enrich(p)
          \/ Save(p)
    \/ StatsReceive
    \/ StatsTotal
    \/ StatsCount
    \/ StatsByCountry

SpecStats == Init /\ [][NextStats]_vars

\* Requests handled one after another; no database failure.
NextSeq ==
    \/ \E p \in Procs :
          \/ ReceiveAlone(p)
          \/ Validate(p)
          \/ GocGet(p)
          \/ GocCreate(p)
          \/ Enrich(p)
          \/ Save(p)
    \/ StatsReceiveAlone
    \/ StatsTotal
    \/ StatsCount
    \/ StatsByCountry

SpecSeq == Init /\ [][NextSeq]_vars

\* Requests handled one after another; database writes may fail.
NextSeqFault ==
    \/ \E p \in Procs :
          \/ ReceiveAlone(p)
          \/ Validate(p)
          \/ GocGet(p)
          \/ GocCreate(p)
          \/ Enrich(p)
          \/ Save(p)
          \/ CreateFail(p)
          \/ SaveFail(p)
    \/ StatsReceiveAlone
    \/ StatsTotal
    \/ StatsCount
    \/ StatsByCountry

SpecSeqFault == Init /\ [][NextSeqFault]_vars

(* ------------------------------ claims -------------------------------- *)

AllIdle == \A p \in Procs : pc[p] = "idle"

\* Handler p answers its request in this step.
Answers(p) == pc[p] # "idle" /\ pc'[p] = "idle"

\* The stored visit_count of an id (0 while it has no row).
StoredCount(tbl, i) == GetRow(tbl, i).visit_count

\* C1: once all requests have completed, under any interleaving, the stored
\* visit_count of every visitor id equals the number of track_visit requests
\* for that id that were answered with success.
C1_NoLostIncrement ==
    AllIdle => \A i \in Ids : StoredCount(rows, i) = ok_count[i]

\* C2: when requests run one after another, the n-th request for a valid
\* visitor id is answered 200 with visit_count = n, leaves the stored
\* visit_count at n, and reports created exactly when n = 1.
C2_NthVisit ==
    [][\A p \in Procs :
          (Answers(p) /\ handled[p] # <<>>) =>
             LET n == nreq[handled[p]] IN
             /\ resp'[p].status = 200
             /\ resp'[p].visitor_id = handled[p]
             /\ resp'[p].visit_count = n
             /\ StoredCount(rows', handled[p]) = n
             /\ resp'[p].created <=> (n = 1)]_vars

\* C2 witness: a second visit of the 64-character id was answered.
C2_Witness ==
    \E p \in Procs :
       /\ pc[p] = "idle"
       /\ resp[p].status = 200
       /\ Len(resp[p].visitor_id) = MaxIdLen
       /\ resp[p].visit_count = 2
       /\ ~resp[p].created
       /\ StoredCount(rows, resp[p].visitor_id) = 2

UniqueRows ==
    \A i, j \in DOMAIN rows :
       rows[i].visitor_id = rows[j].visitor_id => i = j

\* C3: in every reachable state, also under concurrent requests with the
\* same visitor id, there is at most one row per visitor id, and a row once
\* created is never removed.
C3_OneRowPerVisitor ==
    /\ []UniqueRows
    /\ [][/\ Len(rows') >= Len(rows)
          /\ \A i \in DOMAIN rows : rows'[i].visitor_id = rows[i].visitor_id]_vars

\* C3 witness: two requests with the same id both found no row when they
\* started, both were answered, and the id has one row.
C3_Witness ==
    \E p, q \in Procs :
       /\ p # q
       /\ handled[p] # <<>> /\ handled[p] = handled[q]
       /\ pre[p] = NoRow /\ pre[q] = NoRow
       /\ resp[p].status = 200 /\ resp[q].status = 200
       /\ Cardinality(Matches(rows, handled[p])) = 1

\* The visitor_id of body b is absent, empty after trimming, or longer than
\* 64 characters after trimming.
BadId(b) ==
    \/ ~b.has_visitor_id
    \/ Strip(b.visitor_id) = <<>>
    \/ Len(Strip(b.visitor_id)) > 64

\* C4: a request whose visitor_id is absent, empty after trimming or longer
\* than 64 characters after trimming is answered 400 'Invalid visitor_id',
\* creates no row, changes no row and invokes no country lookup.
C4_InvalidIdRejected ==
    [][\A p \in Procs :
          (pc[p] = "validate" /\ pc'[p] # "validate" /\ BadId(body[p])) =>
             /\ resp'[p] = BadRequest
             /\ pc'[p] = "idle"
             /\ rows' = rows
             /\ lookup_calls' = lookup_calls]_vars

\* C4 witness: a 65-character id was answered 400 while the table has a row.
C4_Witness ==
    \E p \in Procs :
       /\ pc[p] = "idle"
       /\ resp[p] = BadRequest
       /\ Len(body[p].visitor_id) = MaxIdLen + 1
       /\ rows # <<>>

\* The request's call to _lookup_country failed: it returned (None, None).
LookupFailed(l) == l.called /\ l.country = None /\ l.country_code = None

\* C5: when the country lookup of a request fails, the request is still
\* answered 200, the row's visit_count is incremented by 1 and persisted, and
\* the row's country and country_code are both unset.
C5_FailedLookupLeavesUnset ==
    [][\A p \in Procs :
          (pc[p] = "save" /\ pc'[p] = "idle" /\ resp'[p].status = 200
             /\ LookupFailed(lookup[p])) =>
             LET r == GetRow(rows', handled[p]) IN
             /\ r.visit_count = pre[p].visit_count + 1
             /\ ~Truthy(r.country)
             /\ ~Truthy(r.country_code)]_vars

\* C6: once a request has stored a country or a country_code on a visitor's
\* row, no later request for that visitor id invokes the lookup.
C6_NoSecondLookup ==
    [][\A p \in Procs :
          (pc[p] = "enrich" /\ lookup'[p].called) =>
             LET r == GetRow(rows, visitor_id[p]) IN
             ~(Truthy(r.country) \/ Truthy(r.country_code))]_vars

\* C7: in every reachable state every row has country and country_code
\* either both unset or both set.
C7_BothOrNeither ==
    \A i \in DOMAIN rows :
       Truthy(rows[i].country) <=> Truthy(rows[i].country_code)

RECURSIVE SumOver(_, _)
SumOver(tbl, S) ==
    IF S = {} THEN 0
    ELSE LET i == CHOOSE x \in S : TRUE
         IN  tbl[i].visit_count + SumOver(tbl, S \ {i})

\* C8: on a table reached by completed requests, visit_stats answers with
\* total_pageviews = the sum of visit_count over all rows (0 without rows)
\* and unique_visitors = the number of rows, and changes no row.
C8_StatsTotals ==
    [][/\ (spc # "idle" \/ spc' # "idle") => rows' = rows
       /\ (spc = "by_country" /\ spc' = "idle") =>
             /\ sresp'.status = 200
             /\ sresp'.total_pageviews = SumOver(rows, DOMAIN rows)
             /\ sresp'.unique_visitors = Cardinality(DOMAIN rows)]_vars

\* C8 witness: a response over two rows with three page views.
C8_Witness ==
    /\ spc = "idle"
    /\ sresp.status = 200
    /\ sresp.unique_visitors = 2
    /\ sresp.total_pageviews = 3

\* The rows whose country is unset (null or empty).
UnsetRows(tbl) == {i \in DOMAIN tbl : ~Truthy(tbl[i].country)}

\* C9: in by_country all rows with unset country are in one entry with
\* country 'Unknown' and country_code '', carrying their count and their
\* summed visit_count; no two entries have the same (country, country_code).
C9_OneUnknownEntry ==
    [][(spc = "by_country" /\ spc' = "idle") =>
          LET by == sresp'.by_country
              U == {k \in DOMAIN by : by[k].country = "Unknown"}
          IN  /\ \A k, l \in DOMAIN by :
                    (by[k].country = by[l].country
                       /\ by[k].country_code = by[l].country_code) => k = l
              /\ UnsetRows(rows) # {} =>
                    /\ Cardinality(U) = 1
                    /\ \A k \in U :
                          /\ by[k].country_code = ""
                          /\ by[k].unique_visitors = Cardinality(UnsetRows(rows))
                          /\ by[k].pageviews = SumOver(rows, UnsetRows(rows))]_vars

\* C10: if a storage write fails at any step of a request, the visitor id's
\* row is as it was before the request (absent if it was absent).
C10_FailedWriteLeavesStore ==
    [][\A p \in Procs :
          (Answers(p) /\ resp'[p] = ServerError) =>
             GetRow(rows', handled[p]) = pre[p]]_vars

\* C11: every request answered 200 performed exactly one INSERT / UPDATE,
\* whether it created the row or found it, and at most one country lookup,
\* none when the client IP is absent.
C11_OneWritePerRequest ==
    [][\A p \in Procs :
          (pc[p] = "save" /\ pc'[p] = "idle" /\ resp'[p].status = 200) =>
             /\ writes'[p] = 1
             /\ lookup_calls' = lookup_calls
             /\ ~Truthy(ip_address[p]) => ~lookup[p].called]_vars

\* The stored ip_address / user_agent of handler p's visitor id in tbl.
StoredMeta(tbl, p) ==
    <<GetRow(tbl, handled[p]).ip_address, GetRow(tbl, handled[p]).user_agent>>

\* Handler p answers 200 to a request for an id that had a row.
AnswersRevisit(p) ==
    pc[p] = "save" /\ pc'[p] = "idle" /\ resp'[p].status = 200 /\ pre[p] # NoRow

\* C12 as claimed: after a request for an id whose row existed, the stored
\* ip_address and user_agent are the observed ones, whatever was observed
\* (also an absent IP or an empty user agent).
C12_ObservedReplacesStored ==
    [][\A p \in Procs :
          AnswersRevisit(p) =>
             StoredMeta(rows', p) = <<ip_address[p], user_agent[p]>>]_vars

\* C12 as amended: after a request for an id whose row existed, the stored
\* ip_address is the observed one when an IP was observed and the previous
\* one when the IP is absent; likewise user_agent, which an empty observed
\* user agent leaves as it was.
C12_NonEmptyReplacesStored ==
    [][\A p \in Procs :
          AnswersRevisit(p) =>
             StoredMeta(rows', p) =
                <<IF Truthy(ip_address[p]) THEN ip_address[p]
                                           ELSE pre[p].ip_address,
                  IF Truthy(user_agent[p]) THEN user_agent[p]
                                           ELSE pre[p].user_agent>>]_vars

\* C12 witness: a second visit was answered and the stored ip_address and
\* user_agent both differ from those the row had before it.
C12_Witness ==
    \E p \in Procs :
       /\ pc[p] = "idle"
       /\ resp[p].status = 200
       /\ pre[p] # NoRow
       /\ Truthy(pre[p].ip_address)
       /\ Truthy(pre[p].user_agent)
       /\ GetRow(rows, handled[p]).ip_address # pre[p].ip_address
       /\ GetRow(rows, handled[p]).user_agent # pre[p].user_agent

\* Handler p handles a later request, with a client IP, for an id whose row
\* has country unset.
Retry(p) ==
    /\ pre[p] # NoRow
    /\ ~Truthy(pre[p].country)
    /\ Truthy(ip_address[p])

C14_CountryNeverOverwritten ==
    [][\A i \in DOMAIN rows :
          (Truthy(rows[i].country) /\ Truthy(rows[i].country_code)) =>
             /\ rows'[i].country = rows[i].country
             /\ rows'[i].country_code = rows[i].country_code]_vars

RECURSIVE SumField(_, _)
SumField(by, f) ==
    IF by = <<>> THEN 0 ELSE Head(by)[f] + SumField(Tail(by), f)

\* C15: every visit_stats response is consistent, also with track_visit
\* requests committing between its queries: by_country sums to
\* total_pageviews and to unique_visitors, and is ordered by non-increasing
\* pageviews.
C15_StatsConsistent ==
    [][(spc = "by_country" /\ spc' = "idle") =>
          LET by == sresp'.by_country IN
          /\ SumField(by, "pageviews") = sresp'.total_pageviews
          /\ SumField(by, "unique_visitors") = sresp'.unique_visitors
          /\ \A k, l \in DOMAIN by :
                k < l => by[k].pageviews >= by[l].pageviews]_vars

====
